---- MODULE Spec2Model ----
(***************************************************************************)
(* Conversation tracker and personalized-feed engine of fussball-gpt      *)
(* (src/scripts/utils/conversation_manager.py, class ConversationManager). *)
(*                                                                         *)
(* Texts are TLA+ strings handled character by character (Len, SubSeq,     *)
(* \o), so that substring tests, lowercasing, counting and slicing are     *)
(* computed as Python computes them.  Scores with two decimals (relevance, *)
(* persona boost) are integers in hundredths: 0.3 is 30, 1.0 is 100.       *)
(* A timestamp is the record's age in whole days at the time of the call.  *)
(* Python's None is the value None below.                                  *)
(***************************************************************************)
EXTENDS Integers, Sequences, FiniteSets, TLC

VARIABLES
    conversation_history,   \* ConversationManager.conversation_history
    feed_offered,           \* ConversationManager.feed_offered
    feed_accepted,          \* ConversationManager.feed_accepted
    current_topic,          \* ConversationManager.current_topic
    last_op,                \* the tracker method called last
    last_ret,               \* what that call returned
    offers,                 \* the topics should_offer_feed returned with True since
                            \* construction or the last reset_feed_state, in order
    pc,                     \* position of a pure-function call: "idle", "call", "return"
    call,                   \* the arguments of the pure-function call
    result                  \* its return value (meaningful when pc = "return")

vars == <<conversation_history, feed_offered, feed_accepted, current_topic,
          last_op, last_ret, offers, pc, call, result>>

tracker_vars == <<conversation_history, feed_offered, feed_accepted, current_topic,
                  last_op, last_ret, offers>>

call_vars == <<pc, call, result>>

None == "None"

NoReturn == <<>>

Min(a, b) == IF a <= b THEN a ELSE b

(***************************************************************************)
(* Python string operations.                                               *)
(***************************************************************************)

UpperChars == "ABCDEFGHIJKLMNOPQRSTUVWXYZÄÖÜÉ"

LowerChars == "abcdefghijklmnopqrstuvwxyzäöüé"

\* c.lower() for a single character
LowerChar ==
    [c \in {SubSeq(UpperChars, i, i) : i \in 1..Len(UpperChars)} |->
        LET i == CHOOSE j \in 1..Len(UpperChars) : SubSeq(UpperChars, j, j) = c
        IN  SubSeq(LowerChars, i, i)]

RECURSIVE Lower(_)
\* s.lower()
Lower(s) ==
    IF Len(s) = 0 THEN ""
    ELSE IF Len(s) = 1 THEN (IF s \in DOMAIN LowerChar THEN LowerChar[s] ELSE s)
    ELSE LET h == Len(s) \div 2
         IN  Lower(SubSeq(s, 1, h)) \o Lower(SubSeq(s, h + 1, Len(s)))

\* sub in text
Contains(sub, text) ==
    IF Len(sub) = 0 THEN TRUE
    ELSE \E i \in 1..(Len(text) - Len(sub) + 1) : SubSeq(text, i, i + Len(sub) - 1) = sub

RECURSIVE CountFrom(_, _, _)
\* occurrences of sub in text[i-1:], scanning left to right without overlap
CountFrom(text, sub, i) ==
    LET P == {p \in i..(Len(text) - Len(sub) + 1) : SubSeq(text, p, p + Len(sub) - 1) = sub}
    IN  IF P = {} THEN 0
        ELSE LET p == CHOOSE q \in P : \A r \in P : q <= r
             IN  1 + CountFrom(text, sub, p + Len(sub))

\* text.count(sub), sub not empty
Count(text, sub) == CountFrom(text, sub, 1)

\* text[:n]
Prefix(text, n) == SubSeq(text, 1, Min(n, Len(text)))

RECURSIVE Repeat(_, _)
\* s * n
Repeat(s, n) ==
    IF n <= 0 THEN ""
    ELSE IF n = 1 THEN s
    ELSE Repeat(s, n \div 2) \o Repeat(s, n - n \div 2)

(***************************************************************************)
(* Entity extraction.                                                      *)
(***************************************************************************)

BUNDESLIGA_TEAMS ==
    { "bayern", "munich", "bayern munich",
      "dortmund", "bvb", "borussia dortmund",
      "leipzig", "rb leipzig",
      "leverkusen", "bayer leverkusen",
      "frankfurt", "eintracht frankfurt",
      "union", "union berlin",
      "freiburg", "sc freiburg",
      "gladbach", "mönchengladbach", "borussia mönchengladbach",
      "bremen", "werder bremen",
      "wolfsburg", "vfl wolfsburg",
      "stuttgart", "vfb stuttgart",
      "hoffenheim", "tsg hoffenheim",
      "augsburg", "fc augsburg",
      "mainz", "mainz 05",
      "bochum", "vfl bochum",
      "heidenheim", "fc heidenheim",
      "st. pauli", "st pauli", "sankt pauli",
      "kiel", "holstein kiel" }

POPULAR_PLAYERS ==
    { "kane", "harry kane",
      "musiala", "jamal musiala",
      "wirtz", "florian wirtz",
      "füllkrug", "niclas füllkrug",
      "sané", "leroy sané",
      "kimmich", "joshua kimmich",
      "gündogan", "ilkay gündogan",
      "goretzka", "leon goretzka" }

\* the if/elif chain applied to a team alias found in the text: the entities it adds
TeamEntities(team) ==
    IF Contains("bayern", team) THEN {"Bayern Munich"}
    ELSE IF Contains("dortmund", team) THEN {"Borussia Dortmund"}
    ELSE IF Contains("leipzig", team) THEN {"RB Leipzig"}
    ELSE IF Contains("leverkusen", team) THEN {"Bayer Leverkusen"}
    ELSE IF Contains("frankfurt", team) THEN {"Eintracht Frankfurt"}
    ELSE IF Contains("union", team) THEN {"Union Berlin"}
    ELSE IF Contains("freiburg", team) THEN {"SC Freiburg"}
    ELSE IF Contains("gladbach", team) \/ Contains("mönchengladbach", team)
         THEN {"Borussia Mönchengladbach"}
    ELSE IF Contains("bremen", team) THEN {"Werder Bremen"}
    ELSE IF Contains("wolfsburg", team) THEN {"VfL Wolfsburg"}
    ELSE IF Contains("stuttgart", team) THEN {"VfB Stuttgart"}
    ELSE IF Contains("hoffenheim", team) THEN {"TSG Hoffenheim"}
    ELSE IF Contains("augsburg", team) THEN {"FC Augsburg"}
    ELSE IF Contains("mainz", team) THEN {"Mainz 05"}
    ELSE IF Contains("bochum", team) THEN {"VfL Bochum"}
    ELSE IF Contains("heidenheim", team) THEN {"FC Heidenheim"}
    ELSE IF Contains("pauli", team) THEN {"St. Pauli"}
    ELSE IF Contains("kiel", team) THEN {"Holstein Kiel"}
    ELSE {}

\* the if/elif chain applied to a player alias found in the text
\* (the source spells the seventh name with a dotted capital I and a soft g)
PlayerEntities(player) ==
    IF Contains("kane", player) THEN {"Harry Kane"}
    ELSE IF Contains("musiala", player) THEN {"Jamal Musiala"}
    ELSE IF Contains("wirtz", player) THEN {"Florian Wirtz"}
    ELSE IF Contains("füllkrug", player) THEN {"Niclas Füllkrug"}
    ELSE IF Contains("sané", player) THEN {"Leroy Sané"}
    ELSE IF Contains("kimmich", player) THEN {"Joshua Kimmich"}
    ELSE IF Contains("gündogan", player) THEN {"Ilkay Gündogan"}
    ELSE IF Contains("goretzka", player) THEN {"Leon Goretzka"}
    ELSE {}

extract_entities(text) ==
    LET text_lower == Lower(text)
    IN  UNION {TeamEntities(team) : team \in {t \in BUNDESLIGA_TEAMS : Contains(t, text_lower)}}
        \cup
        UNION {PlayerEntities(player) :
                  player \in {p \in POPULAR_PLAYERS : Contains(p, text_lower)}}

(***************************************************************************)
(* Relevance scoring and article classification.                           *)
(***************************************************************************)

\* n/d rounded towards zero
RoundDown(n, d) == n \div d

\* n/d rounded to the nearest integer, halves to the even neighbour: round(score, 2)
\* read in hundredths.  The float the source rounds is the nearest double to n/d; the
\* texts of the model never put it on an exact half.
RoundHalfEven(n, d) ==
    LET q == n \div d
        r == n % d
    IN  IF 2 * r > d THEN q + 1
        ELSE IF 2 * r < d THEN q
        ELSE IF q % 2 = 0 THEN q ELSE q + 1

\* the score with the headline factor dividing instead of multiplying: score / 1.5
_calculate_relevance_headline_penalty(text, topic) ==
    IF text = "" \/ topic = "" THEN 0
    ELSE
      LET text_lower == Lower(text)
          topic_lower == Lower(topic)
      IN  IF ~Contains(topic_lower, text_lower) THEN 0
          ELSE
            LET mention_count == Count(text_lower, topic_lower)
                text_length == Len(text)
                capped == 100 * mention_count >= 3 * text_length
                num == IF capped THEN 1 ELSE 100 * mention_count
                den == IF capped THEN 1 ELSE 3 * text_length
                boosted == Contains(topic_lower, Prefix(text_lower, 50))
                num2 == IF boosted THEN 2 * num ELSE num
                den2 == IF boosted THEN 3 * den ELSE den
            IN  RoundHalfEven(100 * num2, den2)

\* The score in hundredths.  density / 3.0 is 100 * mention_count / (3 * text_length),
\* kept as the fraction num / den until it is rounded.
_calculate_relevance(text, topic) ==
    IF text = "" \/ topic = "" THEN 0
    ELSE
      LET text_lower == Lower(text)
          topic_lower == Lower(topic)
      IN  IF ~Contains(topic_lower, text_lower) THEN 0
          ELSE
            LET mention_count == Count(text_lower, topic_lower)
                text_length == Len(text)
                \* score = min(density / 3.0, 1.0)
                capped == 100 * mention_count >= 3 * text_length
                num == IF capped THEN 1 ELSE 100 * mention_count
                den == IF capped THEN 1 ELSE 3 * text_length
                \* score = min(score * 1.5, 1.0) when the topic is in the first 50 characters
                boosted == Contains(topic_lower, Prefix(text_lower, 50))
                capped2 == boosted /\ 3 * num >= 2 * den
                num2 == IF capped2 THEN 1 ELSE IF boosted THEN 3 * num ELSE num
                den2 == IF capped2 THEN 1 ELSE IF boosted THEN 2 * den ELSE den
            IN  RoundHalfEven(100 * num2, den2)

analysis_keywords ==
    << "taktik", "tactic", "tactical",
       "analyse", "analysis",
       "strategie", "strategy",
       "formation",
       "spielsystem", "system",
       "schwächen", "weakness", "stärken", "strength",
       "warum", "why", "wie", "how" >>

_classify_article(title, content) ==
    LET text == Lower(title \o " " \o content)
        analysis_count ==
            Cardinality({k \in 1..Len(analysis_keywords) : Contains(analysis_keywords[k], text)})
    IN  IF analysis_count >= 2 THEN "analysis" ELSE "news"

(***************************************************************************)
(* Feed generation.                                                        *)
(*                                                                         *)
(* An aggregated record carries the fields generate_feed reads: a news     *)
(* article its title, content, url and timestamp; an event its title,      *)
(* content, timestamp and the two team names; a player-stat record the     *)
(* name, the team and the four numbers of the summary line.  A feed item   *)
(* carries type, headline, summary, url, timestamp, relevance,             *)
(* content_category, is_fallback and persona_boost; the last two are       *)
(* absent from the source's dict until set and read there with             *)
(* item.get(..., False) and item.get(..., 0.0), which is the value they    *)
(* hold here.  The clock is taken not to advance during one call:          *)
(* every datetime.now() of a generate_feed call is the same instant, so a  *)
(* stats item, stamped now, has age 0.                                     *)
(***************************************************************************)

\* the records the aggregated data of the model is made of
NewsPool ==
    { [title |-> "Bayern wins", content |-> Repeat("x", 100),
       url |-> "https://kicker.de/1", age |-> 29],
      [title |-> "Bayern", content |-> Repeat("y", 200),
       url |-> None, age |-> 1],
      [title |-> "Bundesliga table", content |-> "Standings after matchday 10",
       url |-> "https://kicker.de/2", age |-> 0],
      [title |-> "Tactical analysis: Bayern formation", content |-> "Top of the Bundesliga",
       url |-> None, age |-> 0],
      [title |-> "Transfer news", content |-> "Late goal decides cup tie",
       url |-> "https://kicker.de/3", age |-> 1] }

EventPool ==
    { [title |-> "Bayern Munich 3-0 Dortmund", content |-> "Match result", age |-> 1,
       home_team |-> "Bayern Munich", away_team |-> "Dortmund"],
      [title |-> "Kiel - Mainz", content |-> "Scheduled", age |-> 0,
       home_team |-> None, away_team |-> "Mainz"] }

StatsPool ==
    { [player_name |-> "Harry Kane", team |-> "Bayern München",
       goals |-> 15, assists |-> 5, appearances |-> 20, minutes_played |-> 1800],
      [player_name |-> "Florian Wirtz", team |-> "Bayer Leverkusen",
       goals |-> 9, assists |-> 11, appearances |-> 21, minutes_played |-> 1700] }

\* longer lists of records, in the order the aggregator delivers them: articles over
\* the threshold, on it and below it, with and without a url, with and without a
\* league keyword; events with and without a team of the topic; players of several
\* teams
LongNews ==
    << [title |-> "Bayern wins", content |-> Repeat("x", 100),
        url |-> "https://kicker.de/1", age |-> 29],
       [title |-> "Tactical analysis: Bayern formation", content |-> "Top of the Bundesliga",
        url |-> None, age |-> 0],
       [title |-> "Bayern", content |-> Repeat("z", 160),
        url |-> "https://kicker.de/4", age |-> 0],
       [title |-> "Bayern", content |-> Repeat("y", 200),
        url |-> None, age |-> 1],
       [title |-> "Bayern in der Liga", content |-> Repeat("v", 231),
        url |-> "https://kicker.de/5", age |-> 2],
       [title |-> "Bayern: Tabelle", content |-> Repeat("w", 200),
        url |-> "https://kicker.de/6", age |-> 0],
       [title |-> "Bayern top of the standings", content |-> Repeat("u", 180),
        url |-> None, age |-> 0],
       [title |-> "Bundesliga: Bayern", content |-> Repeat("t", 300),
        url |-> "https://kicker.de/7", age |-> 3],
       [title |-> "Bayern and the Bundesliga", content |-> Repeat("s", 250),
        url |-> "https://kicker.de/8", age |-> 0],
       [title |-> "Bundesliga table", content |-> "Standings after matchday 10",
        url |-> "https://kicker.de/2", age |-> 0] >>

LongEvents ==
    << [title |-> "Harry Kane scores twice", content |-> "Match report", age |-> 0,
        home_team |-> "FCB", away_team |-> "BVB"],
       [title |-> "Bayern Munich 3-0 Dortmund", content |-> "Match result", age |-> 1,
        home_team |-> "Bayern Munich", away_team |-> "Dortmund"],
       [title |-> "Kiel - Bayern Munich", content |-> "Scheduled", age |-> 1,
        home_team |-> "Kiel", away_team |-> "Bayern Munich"] >>

LongStats ==
    << [player_name |-> "Florian Wirtz", team |-> "Bayer Leverkusen",
        goals |-> 9, assists |-> 11, appearances |-> 21, minutes_played |-> 1700],
       [player_name |-> "Harry Kane", team |-> "Bayern München",
        goals |-> 15, assists |-> 5, appearances |-> 20, minutes_played |-> 1800],
       [player_name |-> "Jamal Musiala", team |-> "Bayern München",
        goals |-> 8, assists |-> 6, appearances |-> 19, minutes_played |-> 1500],
       [player_name |-> "Niclas Füllkrug", team |-> "Werder Bremen",
        goals |-> 7, assists |-> 2, appearances |-> 18, minutes_played |-> 1400],
       [player_name |-> "Leon Goretzka", team |-> "Bayern München",
        goals |-> 3, assists |-> 4, appearances |-> 17, minutes_played |-> 1300],
       [player_name |-> "Joshua Kimmich", team |-> "Bayern München",
        goals |-> 2, assists |-> 9, appearances |-> 22, minutes_played |-> 1900] >>

\* the members of a sequence
Range(seq) == {seq[i] : i \in 1..Len(seq)}

Topics == {"Bayern", "Harry Kane", "Handball"}

\* the canonical entity names should_offer_feed returns in the conversations of the
\* model, which the CLI passes on to generate_feed as the topic
OfferedTopics == {"Bayern Munich", "Harry Kane"}

\* Persona of user_config, and None for a call without persona
Personas == {None, "casual_fan", "expert_analyst", "betting_enthusiast", "fantasy_player"}

\* Python truth value of an Optional[str]
Truthy(v) == v # None /\ v # ""

\* a slice that is one item too long
Take_one_more(seq, n) == SubSeq(seq, 1, Min(n + 1, Len(seq)))

\* seq[:n]
Take(seq, n) == SubSeq(seq, 1, Min(n, Len(seq)))

\* f"{title} {content}"
TitleAndContent(record) == record.title \o " " \o record.content

\* _calculate_relevance and _classify_article tabulated over the records and topics of
\* the model
calculate_relevance_of ==
    [text \in {TitleAndContent(r) : r \in NewsPool \cup EventPool
                                       \cup Range(LongNews) \cup Range(LongEvents)},
     topic \in Topics \cup OfferedTopics |->
        _calculate_relevance(text, topic)]

classify_article_of ==
    [article \in NewsPool \cup Range(LongNews) |->
        _classify_article(article.title, article.content)]

bundesliga_keywords == <<"bundesliga", "liga", "tabelle", "standings">>

\* any(keyword in text for keyword in bundesliga_keywords), tabulated over the articles
any_bundesliga_keyword_of ==
    [article \in NewsPool \cup Range(LongNews) |->
        LET text == Lower(TitleAndContent(article))
        IN  \E k \in 1..Len(bundesliga_keywords) : Contains(bundesliga_keywords[k], text)]

FeedItem(type, headline, summary, url, age, relevance, content_category, is_fallback) ==
    [type |-> type, headline |-> headline, summary |-> summary, url |-> url,
     age |-> age, relevance |-> relevance, content_category |-> content_category,
     is_fallback |-> is_fallback, persona_boost |-> 0]

\* the boost with the casual fan's +0.10 given to every item of category "news"
PersonaBoost_news_column(item, persona) ==
    LET category == item.content_category
    IN  IF persona = "casual_fan"
        THEN IF category = "news" THEN 10
             ELSE IF category = "analysis" THEN -10
             ELSE 0
        ELSE IF persona = "expert_analyst"
        THEN IF category = "analysis" THEN 20
             ELSE IF category = "news" /\ item.type = "event" THEN -5
             ELSE 0
        ELSE IF persona = "betting_enthusiast"
        THEN IF category = "stats" \/ item.type = "stats" THEN 15
             ELSE IF category = "analysis" THEN -5
             ELSE 0
        ELSE IF persona = "fantasy_player"
        THEN IF item.type = "stats" THEN 25
             ELSE IF category = "news" /\ Contains("goal", Lower(item.headline)) THEN 10
             ELSE IF category = "analysis" THEN -10
             ELSE 0
        ELSE 0

\* the boost, in hundredths, that _apply_persona_preferences sets on one item
PersonaBoost(item, persona) ==
    LET category == item.content_category
    IN  IF persona = "casual_fan"
        THEN IF category = "news" /\ item.type = "event" THEN 10
             ELSE IF category = "analysis" THEN -10
             ELSE 0
        ELSE IF persona = "expert_analyst"
        THEN IF category = "analysis" THEN 20
             ELSE IF category = "news" /\ item.type = "event" THEN -5
             ELSE 0
        ELSE IF persona = "betting_enthusiast"
        THEN IF category = "stats" \/ item.type = "stats" THEN 15
             ELSE IF category = "analysis" THEN -5
             ELSE 0
        ELSE IF persona = "fantasy_player"
        THEN IF item.type = "stats" THEN 25
             ELSE IF category = "news" /\ Contains("goal", Lower(item.headline)) THEN 10
             ELSE IF category = "analysis" THEN -10
             ELSE 0
        ELSE 0

_apply_persona_preferences(feed_items, persona) ==
    [i \in 1..Len(feed_items) |->
        [feed_items[i] EXCEPT !.persona_boost = PersonaBoost(feed_items[i], persona)]]

\* score_item as the fraction ScoreNum / ScoreDen, in thousandths:
\* 0.7 * relevance + 0.3 / (1 + age_hours / 24) + persona_boost
ScoreNum(item) == (7 * item.relevance + 10 * item.persona_boost) * (1 + item.age) + 300

ScoreDen(item) == 1 + item.age

\* score_item(a) > score_item(b)
ScoreGreater(a, b) == ScoreNum(a) * ScoreDen(b) > ScoreNum(b) * ScoreDen(a)

\* feed_items.sort(key=score_item, reverse=True): a stable sort, items of equal score
\* keep their order
SortByScore(feed_items) ==
    LET n == Len(feed_items)
        position(i) ==
            1 + Cardinality({j \in 1..n : ScoreGreater(feed_items[j], feed_items[i])})
              + Cardinality({j \in 1..(i - 1) :
                               /\ ~ScoreGreater(feed_items[j], feed_items[i])
                               /\ ~ScoreGreater(feed_items[i], feed_items[j])})
    IN  [p \in 1..n |-> feed_items[CHOOSE i \in 1..n : position(i) = p]]

\* f"{player.goals} goals, ..." with or without the minutes
StatsSummary(player, with_minutes) ==
    ToString(player.goals) \o " goals, " \o ToString(player.assists) \o " assists in "
        \o ToString(player.appearances) \o " appearances"
        \o (IF with_minutes THEN " (" \o ToString(player.minutes_played) \o " minutes)"
            ELSE "")

\* the relevance of the title and content of a news article or of an event
text_relevance(record, topic) == calculate_relevance_of[TitleAndContent(record), topic]

\* {item.get("url") for item in existing_items if item.get("url")}
existing_urls(existing_items) ==
    {existing_items[i].url : i \in {j \in 1..Len(existing_items) :
                                      Truthy(existing_items[j].url)}}

\* a fallback news item under the headline marker of its strategy
fallback_news_item(marker, article, relevance) ==
    FeedItem("news", marker \o article.title, Prefix(article.content, 200) \o "...",
             article.url, article.age, relevance, classify_article_of[article], TRUE)

\* a marginal range that takes in the threshold: 0.15 <= relevance <= 0.3
is_marginal_up_to_threshold(relevance) == 15 <= relevance /\ relevance <= 30

\* 0.15 <= relevance < 0.3
is_marginal(relevance) == 15 <= relevance /\ relevance < 30

\* the items a strategy appends for the articles it selects, in their order
related_items(articles, topic) ==
    [i \in 1..Len(articles) |->
        fallback_news_item("[Related] ", articles[i], text_relevance(articles[i], topic))]

league_items(articles) ==
    [i \in 1..Len(articles) |-> fallback_news_item("[Bundesliga] ", articles[i], 20)]

fallback_stats_items(players) ==
    [i \in 1..Len(players) |->
        FeedItem("stats", players[i].player_name \o " - " \o players[i].team,
                 StatsSummary(players[i], FALSE), None, 0, 15, "stats", TRUE)]

\* Strategy 1: the articles not yet shown whose relevance is marginal
fallback_marginal_matches(topic, news_articles, urls) ==
    related_items(SelectSeq(news_articles, LAMBDA article :
                      /\ article.url \notin urls
                      /\ is_marginal(text_relevance(article, topic))),
                  topic)

\* Strategy 2: with fewer than 2 fallback items, the league-wide articles not yet
\* shown, until 5 fallback items are collected
fallback_league_content(news_articles, urls, fallback_items) ==
    IF Len(fallback_items) < 2
    THEN fallback_items \o
         Take(league_items(SelectSeq(news_articles, LAMBDA article :
                               /\ article.url \notin urls
                               /\ any_bundesliga_keyword_of[article])),
              5 - Len(fallback_items))
    ELSE fallback_items

\* Strategy 3: with fewer than 2 items in all, every player-stat record, until 5
\* fallback items are collected
fallback_player_stats(player_stats, existing_items, fallback_items) ==
    IF Len(existing_items) + Len(fallback_items) < 2
    THEN fallback_items \o
         Take(fallback_stats_items(player_stats), 5 - Len(fallback_items))
    ELSE fallback_items

\* persona preferences that hand back the items in the opposite order
with_persona_preferences_reversing(feed_items, persona) ==
    IF Truthy(persona)
    THEN LET boosted == _apply_persona_preferences(feed_items, persona)
         IN  [i \in 1..Len(boosted) |-> boosted[Len(boosted) + 1 - i]]
    ELSE feed_items

\* the persona boosts, when a persona is given
with_persona_preferences(feed_items, persona) ==
    IF Truthy(persona) THEN _apply_persona_preferences(feed_items, persona) ELSE feed_items

\* the fallback without the limit of 5 items on what it returns
_generate_fallback_content_unlimited(topic, aggregated_data, existing_items, persona) ==
    with_persona_preferences(
        fallback_player_stats(
            aggregated_data.player_stats, existing_items,
            fallback_league_content(
                aggregated_data.news_articles, existing_urls(existing_items),
                fallback_marginal_matches(topic, aggregated_data.news_articles,
                                          existing_urls(existing_items)))),
        persona)

_generate_fallback_content(topic, aggregated_data, existing_items, persona) ==
    Take(with_persona_preferences(
             fallback_player_stats(
                 aggregated_data.player_stats, existing_items,
                 fallback_league_content(
                     aggregated_data.news_articles, existing_urls(existing_items),
                     fallback_marginal_matches(topic, aggregated_data.news_articles,
                                               existing_urls(existing_items)))),
             persona),
         5)

\* relevance of an event: 1.0 on a team-name match, else the text relevance
EventRelevance(event, topic) ==
    IF Truthy(event.home_team) /\ Contains(Lower(topic), Lower(event.home_team)) THEN 100
    ELSE IF Truthy(event.away_team) /\ Contains(Lower(topic), Lower(event.away_team)) THEN 100
    ELSE text_relevance(event, topic)

news_item(article, relevance) ==
    FeedItem("news", article.title,
             IF Len(article.content) > 200 THEN Prefix(article.content, 200) \o "..."
             ELSE article.content,
             article.url, article.age, relevance, classify_article_of[article], FALSE)

event_item(event, relevance) ==
    FeedItem("event", event.title, event.content, None, event.age, relevance, "news", FALSE)

stats_item(player) ==
    FeedItem("stats", player.player_name \o " - " \o player.team,
             StatsSummary(player, TRUE), None, 0, 100, "stats", FALSE)

news_items(articles, topic) ==
    [i \in 1..Len(articles) |-> news_item(articles[i], text_relevance(articles[i], topic))]

event_items(events, topic) ==
    [i \in 1..Len(events) |-> event_item(events[i], EventRelevance(events[i], topic))]

stats_items(players) == [i \in 1..Len(players) |-> stats_item(players[i])]

\* the three filters with a threshold that admits a relevance of exactly 0.3
matching_items_admitting_threshold(topic, aggregated_data) ==
    news_items(SelectSeq(aggregated_data.news_articles, LAMBDA article :
                   text_relevance(article, topic) >= 30),
               topic)
    \o event_items(SelectSeq(aggregated_data.sports_events, LAMBDA event :
                       EventRelevance(event, topic) >= 30),
                   topic)
    \o stats_items(SelectSeq(aggregated_data.player_stats, LAMBDA player :
                       \/ Contains(Lower(topic), Lower(player.player_name))
                       \/ Contains(Lower(topic), Lower(player.team))))

\* the items of the three filters, in the order the source appends them
matching_items(topic, aggregated_data) ==
    news_items(SelectSeq(aggregated_data.news_articles, LAMBDA article :
                   text_relevance(article, topic) > 30),
               topic)
    \o event_items(SelectSeq(aggregated_data.sports_events, LAMBDA event :
                       EventRelevance(event, topic) > 30),
                   topic)
    \o stats_items(SelectSeq(aggregated_data.player_stats, LAMBDA player :
                       \/ Contains(Lower(topic), Lower(player.player_name))
                       \/ Contains(Lower(topic), Lower(player.team))))

\* a feed that shows a notice in place of an empty result
with_fallback_or_notice(topic, aggregated_data, feed_items, persona) ==
    LET items == IF Len(feed_items) < 3
                 THEN feed_items \o _generate_fallback_content(topic, aggregated_data,
                                                               feed_items, persona)
                 ELSE feed_items
    IN  IF items = <<>>
        THEN <<FeedItem("news", "No content found", "", None, 0, 0, "news", TRUE)>>
        ELSE items

\* the fallback items put in front of the sorted items
with_fallback_in_front(topic, aggregated_data, feed_items, persona) ==
    IF Len(feed_items) < 3
    THEN _generate_fallback_content(topic, aggregated_data, feed_items, persona) \o feed_items
    ELSE feed_items

\* the fallback items are appended behind the sorted items when these are fewer than 3
with_fallback(topic, aggregated_data, feed_items, persona) ==
    IF Len(feed_items) < 3
    THEN feed_items \o _generate_fallback_content(topic, aggregated_data, feed_items, persona)
    ELSE feed_items

generate_feed(topic, aggregated_data, count, persona) ==
    Take(with_fallback(topic, aggregated_data,
                       SortByScore(with_persona_preferences(
                                       matching_items(topic, aggregated_data), persona)),
                       persona),
         count)

(***************************************************************************)
(* Conversation tracker.                                                   *)
(***************************************************************************)

\* bound on the number of turns of one conversation
MaxTurns == 4

\* user queries and assistant responses the conversation draws from
Queries == {"", "Bayern game?", "Did Kane score?", "Kane at Bayern"}

Responses == {"Saturday", "Dortmund won"}

\* ConversationTurn(query, response, detected_entities); the timestamp, which nothing
\* in the tracker reads, is left out
ConversationTurn(query, response, detected_entities) ==
    [query |-> query, response |-> response, detected_entities |-> detected_entities]

\* detect_topic_patterns asking for three mentions instead of two
detect_topic_patterns_three_mentions(history) ==
    IF Len(history) < 2 THEN {None}
    ELSE
      LET window == Min(3, Len(history))
          recent_turns == SubSeq(history, Len(history) - window + 1, Len(history))
          all_entities == UNION {recent_turns[i].detected_entities : i \in 1..window}
          entity_counts ==
              [e \in all_entities |->
                  Cardinality({i \in 1..window : e \in recent_turns[i].detected_entities})]
      IN  IF all_entities = {} THEN {None}
          ELSE
            LET count == CHOOSE c \in 1..window :
                            /\ \E e \in all_entities : entity_counts[e] = c
                            /\ \A e \in all_entities : entity_counts[e] <= c
                top == {e \in all_entities : entity_counts[e] = count}
                first_seen(e) == CHOOSE i \in 1..window :
                                    /\ e \in recent_turns[i].detected_entities
                                    /\ \A j \in 1..(i - 1) :
                                          e \notin recent_turns[j].detected_entities
            IN  IF count >= 3
                THEN {e \in top : \A f \in top : first_seen(e) <= first_seen(f)}
                ELSE {None}

\* detect_topic_patterns counting over the whole history instead of the last three turns
detect_topic_patterns_whole_history(history) ==
    IF Len(history) < 2 THEN {None}
    ELSE
      LET window == Len(history)
          recent_turns == SubSeq(history, Len(history) - window + 1, Len(history))
          all_entities == UNION {recent_turns[i].detected_entities : i \in 1..window}
          entity_counts ==
              [e \in all_entities |->
                  Cardinality({i \in 1..window : e \in recent_turns[i].detected_entities})]
      IN  IF all_entities = {} THEN {None}
          ELSE
            LET count == CHOOSE c \in 1..window :
                            /\ \E e \in all_entities : entity_counts[e] = c
                            /\ \A e \in all_entities : entity_counts[e] <= c
                top == {e \in all_entities : entity_counts[e] = count}
                first_seen(e) == CHOOSE i \in 1..window :
                                    /\ e \in recent_turns[i].detected_entities
                                    /\ \A j \in 1..(i - 1) :
                                          e \notin recent_turns[j].detected_entities
            IN  IF count >= 2
                THEN {e \in top : \A f \in top : first_seen(e) <= first_seen(f)}
                ELSE {None}

\* detect_topic_patterns taking a single mention, in a single turn, for a pattern
detect_topic_patterns_single_mention(history) ==
    IF Len(history) < 1 THEN {None}
    ELSE
      LET window == Min(3, Len(history))
          recent_turns == SubSeq(history, Len(history) - window + 1, Len(history))
          all_entities == UNION {recent_turns[i].detected_entities : i \in 1..window}
          entity_counts ==
              [e \in all_entities |->
                  Cardinality({i \in 1..window : e \in recent_turns[i].detected_entities})]
      IN  IF all_entities = {} THEN {None}
          ELSE
            LET count == CHOOSE c \in 1..window :
                            /\ \E e \in all_entities : entity_counts[e] = c
                            /\ \A e \in all_entities : entity_counts[e] <= c
                top == {e \in all_entities : entity_counts[e] = count}
                first_seen(e) == CHOOSE i \in 1..window :
                                    /\ e \in recent_turns[i].detected_entities
                                    /\ \A j \in 1..(i - 1) :
                                          e \notin recent_turns[j].detected_entities
            IN  IF count >= 1
                THEN {e \in top : \A f \in top : first_seen(e) <= first_seen(f)}
                ELSE {None}

\* detect_topic_patterns looking at the last three turns that have entities: a turn
\* without entities takes no place in the window
detect_topic_patterns_skipping_empty_turns(history) ==
    LET with_entities == SelectSeq(history, LAMBDA turn : turn.detected_entities # {})
    IN  IF Len(history) < 2 \/ with_entities = <<>> THEN {None}
        ELSE
          LET window == Min(3, Len(with_entities))
              recent_turns == SubSeq(with_entities, Len(with_entities) - window + 1,
                                     Len(with_entities))
              all_entities == UNION {recent_turns[i].detected_entities : i \in 1..window}
              entity_counts ==
                  [e \in all_entities |->
                      Cardinality({i \in 1..window : e \in recent_turns[i].detected_entities})]
              count == CHOOSE c \in 1..window :
                          /\ \E e \in all_entities : entity_counts[e] = c
                          /\ \A e \in all_entities : entity_counts[e] <= c
              top == {e \in all_entities : entity_counts[e] = count}
              first_seen(e) == CHOOSE i \in 1..window :
                                  /\ e \in recent_turns[i].detected_entities
                                  /\ \A j \in 1..(i - 1) :
                                        e \notin recent_turns[j].detected_entities
          IN  IF count >= 2
              THEN {e \in top : \A f \in top : first_seen(e) <= first_seen(f)}
              ELSE {None}

\* The values detect_topic_patterns can leave in current_topic.  Counter.most_common(1)
\* returns the entity with the highest count that was inserted first; entities are
\* inserted turn by turn, and within one turn in the iteration order of a set of
\* strings, which differs from one interpreter run to the next: the choice among
\* the top entities first seen in the same turn is not determined.
detect_topic_patterns(history) ==
    IF Len(history) < 2 THEN {None}
    ELSE
      LET window == Min(3, Len(history))
          recent_turns == SubSeq(history, Len(history) - window + 1, Len(history))
          all_entities == UNION {recent_turns[i].detected_entities : i \in 1..window}
          entity_counts ==
              [e \in all_entities |->
                  Cardinality({i \in 1..window : e \in recent_turns[i].detected_entities})]
      IN  IF all_entities = {} THEN {None}
          ELSE
            LET count == CHOOSE c \in 1..window :
                            /\ \E e \in all_entities : entity_counts[e] = c
                            /\ \A e \in all_entities : entity_counts[e] <= c
                top == {e \in all_entities : entity_counts[e] = count}
                first_seen(e) == CHOOSE i \in 1..window :
                                    /\ e \in recent_turns[i].detected_entities
                                    /\ \A j \in 1..(i - 1) :
                                          e \notin recent_turns[j].detected_entities
            IN  IF count >= 2
                THEN {e \in top : \A f \in top : first_seen(e) <= first_seen(f)}
                ELSE {None}

\* extract_entities tabulated over the queries of the model
extract_entities_of == [q \in Queries |-> extract_entities(q)]

\* add_turn extracting the entities of the response as well as those of the query
add_turn_with_response_entities(user_query, assistant_response) ==
    /\ Len(conversation_history) < MaxTurns
    /\ conversation_history' =
          Append(conversation_history,
                 ConversationTurn(user_query, assistant_response,
                                  extract_entities_of[user_query]
                                      \cup extract_entities(assistant_response)))
    /\ current_topic' \in detect_topic_patterns(conversation_history')
    /\ last_op' = "add_turn"
    /\ last_ret' = NoReturn
    /\ UNCHANGED <<feed_offered, feed_accepted, offers, call_vars>>

add_turn(user_query, assistant_response) ==
    /\ Len(conversation_history) < MaxTurns
    /\ conversation_history' =
          Append(conversation_history,
                 ConversationTurn(user_query, assistant_response,
                                  extract_entities_of[user_query]))
    /\ current_topic' \in detect_topic_patterns(conversation_history')
    /\ last_op' = "add_turn"
    /\ last_ret' = NoReturn
    /\ UNCHANGED <<feed_offered, feed_accepted, offers, call_vars>>

\* should_offer_feed forgetting to mark the offer as made
should_offer_feed_unmarked ==
    /\ last_op' = "should_offer_feed"
    /\ IF feed_offered
       THEN /\ last_ret' = <<FALSE, None>>
            /\ UNCHANGED <<feed_offered, offers>>
       ELSE IF Len(conversation_history) < 2
       THEN /\ last_ret' = <<FALSE, None>>
            /\ UNCHANGED <<feed_offered, offers>>
       ELSE IF Truthy(current_topic)
       THEN /\ UNCHANGED feed_offered
            /\ last_ret' = <<TRUE, current_topic>>
            /\ offers' = Append(offers, current_topic)
       ELSE /\ last_ret' = <<FALSE, None>>
            /\ UNCHANGED <<feed_offered, offers>>
    /\ UNCHANGED <<conversation_history, current_topic, feed_accepted, call_vars>>

\* should_offer_feed without the check that an offer was already made
should_offer_feed_repeating ==
    /\ last_op' = "should_offer_feed"
    /\ IF FALSE
       THEN /\ last_ret' = <<FALSE, None>>
            /\ UNCHANGED <<feed_offered, offers>>
       ELSE IF Len(conversation_history) < 2
       THEN /\ last_ret' = <<FALSE, None>>
            /\ UNCHANGED <<feed_offered, offers>>
       ELSE IF Truthy(current_topic)
       THEN /\ feed_offered' = TRUE
            /\ last_ret' = <<TRUE, current_topic>>
            /\ offers' = Append(offers, current_topic)
       ELSE /\ last_ret' = <<FALSE, None>>
            /\ UNCHANGED <<feed_offered, offers>>
    /\ UNCHANGED <<conversation_history, current_topic, feed_accepted, call_vars>>

\* should_offer_feed holding back once an offer was accepted, not once it was made
should_offer_feed_until_accepted ==
    /\ last_op' = "should_offer_feed"
    /\ IF feed_accepted
       THEN /\ last_ret' = <<FALSE, None>>
            /\ UNCHANGED <<feed_offered, offers>>
       ELSE IF Len(conversation_history) < 2
       THEN /\ last_ret' = <<FALSE, None>>
            /\ UNCHANGED <<feed_offered, offers>>
       ELSE IF Truthy(current_topic)
       THEN /\ feed_offered' = TRUE
            /\ last_ret' = <<TRUE, current_topic>>
            /\ offers' = Append(offers, current_topic)
       ELSE /\ last_ret' = <<FALSE, None>>
            /\ UNCHANGED <<feed_offered, offers>>
    /\ UNCHANGED <<conversation_history, current_topic, feed_accepted, call_vars>>

should_offer_feed ==
    /\ last_op' = "should_offer_feed"
    /\ IF feed_offered
       THEN /\ last_ret' = <<FALSE, None>>
            /\ UNCHANGED <<feed_offered, offers>>
       ELSE IF Len(conversation_history) < 2
       THEN /\ last_ret' = <<FALSE, None>>
            /\ UNCHANGED <<feed_offered, offers>>
       ELSE IF Truthy(current_topic)
       THEN /\ feed_offered' = TRUE
            /\ last_ret' = <<TRUE, current_topic>>
            /\ offers' = Append(offers, current_topic)
       ELSE /\ last_ret' = <<FALSE, None>>
            /\ UNCHANGED <<feed_offered, offers>>
    /\ UNCHANGED <<conversation_history, current_topic, feed_accepted, call_vars>>

\* accept_feed_offer recording the offer as made, too
accept_feed_offer_marking_offered ==
    /\ feed_accepted' = TRUE
    /\ feed_offered' = TRUE
    /\ last_op' = "accept_feed_offer"
    /\ last_ret' = NoReturn
    /\ UNCHANGED <<conversation_history, current_topic, offers, call_vars>>

accept_feed_offer ==
    /\ feed_accepted' = TRUE
    /\ last_op' = "accept_feed_offer"
    /\ last_ret' = NoReturn
    /\ UNCHANGED <<conversation_history, current_topic, feed_offered, offers, call_vars>>

\* reset_feed_state starting a new conversation: the turns are dropped as well
reset_feed_state_dropping_turns ==
    /\ feed_offered' = FALSE
    /\ feed_accepted' = FALSE
    /\ current_topic' = None
    /\ conversation_history' = <<>>
    /\ last_op' = "reset_feed_state"
    /\ last_ret' = NoReturn
    /\ offers' = <<>>
    /\ UNCHANGED call_vars

\* reset_feed_state withdrawing the offer and keeping its acceptance
reset_feed_state_keeping_accepted ==
    /\ feed_offered' = FALSE
    /\ UNCHANGED feed_accepted
    /\ current_topic' = None
    /\ last_op' = "reset_feed_state"
    /\ last_ret' = NoReturn
    /\ offers' = <<>>
    /\ UNCHANGED <<conversation_history, call_vars>>

\* reset_feed_state clearing the two flags and keeping the detected topic
reset_feed_state_keeping_topic ==
    /\ feed_offered' = FALSE
    /\ feed_accepted' = FALSE
    /\ last_op' = "reset_feed_state"
    /\ last_ret' = NoReturn
    /\ offers' = <<>>
    /\ UNCHANGED <<conversation_history, current_topic, call_vars>>

reset_feed_state ==
    /\ feed_offered' = FALSE
    /\ feed_accepted' = FALSE
    /\ current_topic' = None
    /\ last_op' = "reset_feed_state"
    /\ last_ret' = NoReturn
    /\ offers' = <<>>
    /\ UNCHANGED <<conversation_history, call_vars>>

\* the generate_feed calls made during a conversation: the CLI passes a topic, the
\* aggregated data it holds, count=10 and the persona of the session
FeedRequests ==
    [fn : {"generate_feed"},
     topic : {"Bayern"},
     aggregated_data :
         {[news_articles |-> <<CHOOSE a \in NewsPool : a.title = "Bayern wins">>,
           sports_events |-> <<CHOOSE e \in EventPool : e.home_team = "Bayern Munich">>,
           player_stats |-> <<CHOOSE p \in StatsPool : p.player_name = "Harry Kane">>]},
     count : {10},
     persona : {"casual_fan"}]

\* the caller enters generate_feed with its arguments; call_generate_feed below is the
\* call itself
request_feed(request) ==
    /\ pc # "call"
    /\ call' = request
    /\ pc' = "call"
    /\ result' = <<>>
    /\ last_op' = "generate_feed"
    /\ last_ret' = NoReturn
    /\ UNCHANGED <<conversation_history, feed_offered, feed_accepted, current_topic, offers>>

\* generate_feed taking the player-stat records out of the aggregated data as it
\* turns them into items
call_generate_feed_consuming_stats ==
    /\ pc = "call"
    /\ call.fn = "generate_feed"
    /\ result' = generate_feed(call.topic, call.aggregated_data, call.count, call.persona)
    /\ call' = [call EXCEPT !.aggregated_data.player_stats = <<>>]
    /\ pc' = "return"
    /\ UNCHANGED tracker_vars

\* generate_feed applied to the arguments of the call in progress; it assigns to no
\* attribute of the tracker and to no record of the aggregated data
call_generate_feed ==
    /\ pc = "call"
    /\ call.fn = "generate_feed"
    /\ result' = generate_feed(call.topic, call.aggregated_data, call.count, call.persona)
    /\ pc' = "return"
    /\ UNCHANGED <<call, tracker_vars>>

\* ConversationManager.__init__
Init ==
    /\ conversation_history = <<>>
    /\ feed_offered = FALSE
    /\ feed_accepted = FALSE
    /\ current_topic = None
    /\ last_op = "__init__"
    /\ last_ret = NoReturn
    /\ offers = <<>>
    /\ pc = "idle"
    /\ call = <<>>
    /\ result = <<>>

Next ==
    \/ \E user_query \in Queries, assistant_response \in Responses :
          add_turn(user_query, assistant_response)
    \/ should_offer_feed
    \/ accept_feed_offer
    \/ reset_feed_state

Spec == Init /\ [][Next]_vars

\* bound on the number of turns of a conversation during which feeds are generated
MaxFeedTurns == 3

\* the tracker methods and generate_feed, called in any order
NextWithFeed ==
    \/ /\ Len(conversation_history) < MaxFeedTurns
       /\ \E user_query \in Queries, assistant_response \in Responses :
             add_turn(user_query, assistant_response)
    \/ should_offer_feed
    \/ accept_feed_offer
    \/ reset_feed_state
    \/ \E request \in FeedRequests : request_feed(request)
    \/ call_generate_feed

SpecWithFeed == Init /\ [][NextWithFeed]_vars

\* the generate_feed call of the CLI: the topic should_offer_feed returned, the data
\* of the session, count=10 and the persona of the session
CliFeedRequests(topic) ==
    {[request EXCEPT !.topic = topic] : request \in FeedRequests}

\* The loop of KSI_CLI.run.  After every answered query it calls add_turn and then
\* should_offer_feed; on an offer it prompts the user, and on "yes" calls
\* accept_feed_offer and then generate_feed with the offered topic; on any other
\* input it goes on to the next query.  It never calls reset_feed_state.  The place
\* in the loop is read from the method called last.
NextCLI ==
    \/ /\ \/ last_op \in {"__init__", "should_offer_feed"}
          \/ last_op = "generate_feed" /\ pc = "return"
       /\ \E user_query \in Queries, assistant_response \in Responses :
             add_turn(user_query, assistant_response)
    \/ /\ last_op = "add_turn"
       /\ should_offer_feed
    \/ /\ last_op = "should_offer_feed"
       /\ last_ret[1]
       /\ accept_feed_offer
    \/ /\ last_op = "accept_feed_offer"
       /\ \E request \in CliFeedRequests(offers[Len(offers)]) : request_feed(request)
    \/ call_generate_feed

SpecCLI == Init /\ [][NextCLI]_vars

(***************************************************************************)
(* Calls of the pure functions: the arguments are drawn in the initial     *)
(* state and one step applies the function.                                *)
(***************************************************************************)

\* the tracker as constructed, untouched by a pure-function call
TrackerInit ==
    /\ conversation_history = <<>>
    /\ feed_offered = FALSE
    /\ feed_accepted = FALSE
    /\ current_topic = None
    /\ last_op = "__init__"
    /\ last_ret = NoReturn
    /\ offers = <<>>

\* S.upper(), to write the same text in capitals
RECURSIVE Upper(_)
Upper(s) ==
    IF Len(s) = 0 THEN ""
    ELSE IF Len(s) = 1
         THEN (IF \E i \in 1..Len(LowerChars) : SubSeq(LowerChars, i, i) = s
               THEN LET i == CHOOSE j \in 1..Len(LowerChars) : SubSeq(LowerChars, j, j) = s
                    IN  SubSeq(UpperChars, i, i)
               ELSE s)
    ELSE LET h == Len(s) \div 2
         IN  Upper(SubSeq(s, 1, h)) \o Upper(SubSeq(s, h + 1, Len(s)))

\* texts given to extract_entities: every alias of both tables and a few words that
\* are no alias, in lower case and in capitals, alone and inside a sentence
ExtractWords == BUNDESLIGA_TEAMS \cup POPULAR_PLAYERS \cup {"", "handball", "hamburg", "bvb dortmund"}

ExtractTexts ==
    {before \o word \o after :
        before \in {"", "News: "},
        word \in ExtractWords \cup {Upper(w) : w \in ExtractWords},
        after \in {"", " today?"}}

InitExtract ==
    /\ TrackerInit
    /\ pc = "call"
    /\ call \in {[fn |-> "extract_entities", text |-> t] : t \in ExtractTexts}
    /\ result = <<>>

call_extract_entities ==
    /\ pc = "call"
    /\ call.fn = "extract_entities"
    /\ result' = extract_entities(call.text)
    /\ pc' = "return"
    /\ UNCHANGED <<call, tracker_vars>>

SpecExtract == InitExtract /\ [][call_extract_entities]_vars

\* length of the long run of filler characters in the texts given to the scorer
LongPad == 6660

RelevanceWords == {"Bayern", "Bayern Munich", "BAYERN bayern", "Dortmund", ""}

RelevanceTopics == {"Bayern", "bayern munich", "Kane", ""}

\* texts given to _calculate_relevance: a word between two runs of filler
RelevanceTexts ==
    {Repeat("x", a) \o word \o Repeat("y", b) :
        a \in {0, 45, 60, LongPad},
        word \in RelevanceWords,
        b \in {0, 100, 250}}

InitRelevance ==
    /\ TrackerInit
    /\ pc = "call"
    /\ call \in {[fn |-> "_calculate_relevance", text |-> t, topic |-> p] :
                    t \in RelevanceTexts, p \in RelevanceTopics}
    /\ result = <<>>

call_calculate_relevance ==
    /\ pc = "call"
    /\ call.fn = "_calculate_relevance"
    /\ result' = _calculate_relevance(call.text, call.topic)
    /\ pc' = "return"
    /\ UNCHANGED <<call, tracker_vars>>

SpecRelevance == InitRelevance /\ [][call_calculate_relevance]_vars

HeadlineWords == {"Bayern", "BAYERN bayern", "Dortmund"}

HeadlineTopics == {"Bayern", "y", "Kane"}

\* texts in which the same word stands at different places of a text of the same
\* length: a word between two runs of a filler of ten characters, of which one
\* filler holds the one-letter topic
HeadlineTexts ==
    {Repeat(before, a) \o word \o Repeat(after, b) :
        before \in {"xxxxxxxxxx", "xxxxxxxxxy"}, a \in {0, 2, 5, 6, 10},
        word \in HeadlineWords,
        after \in {"xxxxxxxxxx", "xxxxxxxxxy"}, b \in {0, 4, 5, 8, 10}}

InitHeadline ==
    /\ TrackerInit
    /\ pc = "call"
    /\ call \in {[fn |-> "_calculate_relevance", text |-> t, topic |-> p] :
                    t \in HeadlineTexts, p \in HeadlineTopics}
    /\ result = <<>>

SpecHeadline == InitHeadline /\ [][call_calculate_relevance]_vars

ClassifyTitles ==
    {"", "Bayern Munich wins 3-0", "Tactical", "Taktik", "Spielsystem", "Show",
     "Strategy", "Formation", "Warum", "Tactical Analysis: Bayern Munich's formation"}

ClassifyContents ==
    {"", "Bayern secured a victory with dominant performance.", "strength",
     "system", "Wie", "How Bayern Munich's tactical flexibility and strategic system dominated"}

InitClassify ==
    /\ TrackerInit
    /\ pc = "call"
    /\ call \in {[fn |-> "_classify_article", title |-> t, content |-> c] :
                    t \in ClassifyTitles, c \in ClassifyContents}
    /\ result = <<>>

call_classify_article ==
    /\ pc = "call"
    /\ call.fn = "_classify_article"
    /\ result' = _classify_article(call.title, call.content)
    /\ pc' = "return"
    /\ UNCHANGED <<call, tracker_vars>>

SpecClassify == InitClassify /\ [][call_classify_article]_vars

\* bounds on the number of records of each kind in the aggregated data
MaxNews == 2

MaxEvents == 1

MaxStats == 2

\* the sequences of at most n different members of pool
RECURSIVE Lists(_, _)
Lists(pool, n) ==
    IF n = 0 THEN {<<>>}
    ELSE LET shorter == Lists(pool, n - 1)
         IN  shorter \cup {Append(l, r) : l \in shorter, r \in pool}

DistinctLists(pool, n) ==
    {l \in Lists(pool, n) : \A i, j \in 1..Len(l) : i # j => l[i] # l[j]}

\* AggregatedData(news_articles, sports_events, player_stats)
AggregatedData ==
    [news_articles : DistinctLists(NewsPool, MaxNews),
     sports_events : DistinctLists(EventPool, MaxEvents),
     player_stats : DistinctLists(StatsPool, MaxStats)]

\* count arguments; 10 is the default
Counts == {0, 2, 10}

InitFeed ==
    /\ TrackerInit
    /\ pc = "call"
    /\ call \in [fn : {"generate_feed"}, topic : Topics, aggregated_data : AggregatedData,
                 count : Counts, persona : Personas]
    /\ result = <<>>

SpecFeed == InitFeed /\ [][call_generate_feed]_vars

\* seq[i:j] for every i <= j
Slices(seq) == {SubSeq(seq, i, j) : i \in 1..(Len(seq) + 1), j \in 0..Len(seq)}

\* seq[:j] for every j
Prefixes(seq) == {SubSeq(seq, 1, j) : j \in 0..Len(seq)}

\* aggregated data of up to 10 articles, 3 events and 6 player-stat records
LongAggregatedData ==
    [news_articles : Slices(LongNews),
     sports_events : Slices(LongEvents),
     player_stats : Prefixes(LongStats)]

InitLongFeed ==
    /\ TrackerInit
    /\ pc = "call"
    /\ call \in [fn : {"generate_feed"}, topic : Topics, aggregated_data : LongAggregatedData,
                 count : {10}, persona : Personas]
    /\ result = <<>>

SpecLongFeed == InitLongFeed /\ [][call_generate_feed]_vars

\* feed items of every type and category generate_feed builds, with and without
\* "goal" in the headline
PersonaItems ==
    { FeedItem("news", "Bayern wins", "summary", "https://kicker.de/1", 0, 45, "news", FALSE),
      FeedItem("news", "Late Goal decides cup tie", "summary", None, 1, 40, "news", FALSE),
      FeedItem("news", "Tactical analysis: Bayern formation", "summary", None, 0, 50,
               "analysis", FALSE),
      FeedItem("news", "[Related] Goal of the month: the analysis", "summary", None, 0, 20,
               "analysis", TRUE),
      FeedItem("event", "Bayern Munich 3-0 Dortmund", "Match result", None, 1, 100,
               "news", FALSE),
      FeedItem("event", "Kane goal wins the derby", "Match result", None, 0, 100,
               "news", FALSE),
      FeedItem("stats", "Harry Kane - Bayern München", "15 goals, 5 assists in 20 appearances",
               None, 0, 15, "stats", TRUE) }

\* the four personas, no persona, and a value that is none of the four
PersonaValues == Personas \cup {"team_coach"}

\* bound on the number of feed items given to _apply_persona_preferences
MaxPersonaItems == 2

InitPersona ==
    /\ TrackerInit
    /\ pc = "call"
    /\ call \in [fn : {"_apply_persona_preferences"},
                 feed_items : Lists(PersonaItems, MaxPersonaItems),
                 persona : PersonaValues]
    /\ result = <<>>

call_apply_persona_preferences ==
    /\ pc = "call"
    /\ call.fn = "_apply_persona_preferences"
    /\ result' = _apply_persona_preferences(call.feed_items, call.persona)
    /\ pc' = "return"
    /\ UNCHANGED <<call, tracker_vars>>

SpecPersona == InitPersona /\ [][call_apply_persona_preferences]_vars

(***************************************************************************)
(* Properties of the conversation tracker.                                 *)
(***************************************************************************)

\* C1: between two reset_feed_state calls should_offer_feed returns (True, topic) at
\* most once; once it has, feed_offered stays True and every later call returns
\* (False, None), whatever turns are added and whatever current_topic becomes.
C1_AtMostOnceOffer ==
    /\ Len(offers) <= 1
    /\ (offers # <<>> => feed_offered)
    /\ (last_op = "should_offer_feed" =>
          \/ last_ret = <<FALSE, None>>
          \/ (offers # <<>> /\ last_ret = <<TRUE, offers[1]>>))

\* an offer was made, the topic has since moved to another entity, and a further
\* should_offer_feed call has returned (False, None)
C1_Witness ==
    /\ Len(offers) = 1
    /\ last_op = "should_offer_feed"
    /\ last_ret = <<FALSE, None>>
    /\ Truthy(current_topic)
    /\ current_topic # offers[1]

\* C4: when should_offer_feed is called right after the second add_turn and no offer
\* is outstanding, it returns (True, E) if E is the one entity detected in both
\* turns, and (False, None) if both turns have entities and share none.
C4_PatternThreshold ==
    [][(/\ last_op = "add_turn"
        /\ Len(conversation_history) = 2
        /\ ~feed_offered
        /\ last_op' = "should_offer_feed")
       => LET first == conversation_history[1].detected_entities
              second == conversation_history[2].detected_entities
              both == first \cap second
          IN  /\ (Cardinality(both) = 1 =>
                    last_ret' = <<TRUE, CHOOSE E \in both : TRUE>>)
              /\ (first # {} /\ second # {} /\ both = {} =>
                    last_ret' = <<FALSE, None>>)]_vars

\* two turns that share exactly one entity, and the offer made for it
C4_Witness ==
    /\ last_op = "should_offer_feed"
    /\ Len(conversation_history) = 2
    /\ conversation_history[1].detected_entities \cap
       conversation_history[2].detected_entities = {"Bayern Munich"}
    /\ conversation_history[1].detected_entities # conversation_history[2].detected_entities
    /\ last_ret = <<TRUE, "Bayern Munich">>
    /\ offers = <<"Bayern Munich">>

\* C5: a should_offer_feed call returns (True, current_topic) and sets feed_offered
\* exactly when before it feed_offered is False, at least 2 turns exist and
\* current_topic is set; otherwise it returns (False, None) and changes nothing; it
\* never changes the history, current_topic or feed_accepted.
C5_OfferGuardAndEffect ==
    [][last_op' = "should_offer_feed" =>
         /\ IF ~feed_offered /\ Len(conversation_history) >= 2 /\ current_topic # None
            THEN last_ret' = <<TRUE, current_topic>> /\ feed_offered' = TRUE
            ELSE last_ret' = <<FALSE, None>> /\ feed_offered' = feed_offered
         /\ UNCHANGED <<conversation_history, current_topic, feed_accepted>>]_vars

\* an offer just made for the current topic
C5_Witness ==
    /\ last_op = "should_offer_feed"
    /\ last_ret = <<TRUE, current_topic>>
    /\ feed_offered
    /\ Len(conversation_history) >= 2

\* C6: after an add_turn that leaves n >= 2 turns, current_topic is set iff some
\* entity is detected in at least 2 of the last min(3, n) turns, and is then an
\* entity detected in the most turns of that window; older turns do not count.
C6_SlidingWindowTopic ==
    (last_op = "add_turn" /\ Len(conversation_history) >= 2) =>
        LET n == Len(conversation_history)
            lastTurns == {i \in 1..n : i > n - 3}
            mentions(e) ==
                Cardinality({i \in lastTurns : e \in conversation_history[i].detected_entities})
            seen == UNION {conversation_history[i].detected_entities : i \in 1..n}
        IN  /\ (current_topic # None <=> \E e \in seen : mentions(e) >= 2)
            /\ (current_topic # None =>
                   /\ current_topic \in seen
                   /\ mentions(current_topic) >= 2
                   /\ \A e \in seen : mentions(e) <= mentions(current_topic))

\* four turns; an entity detected in the first two only is not the topic
C6_Witness ==
    /\ last_op = "add_turn"
    /\ Len(conversation_history) = 4
    /\ "Bayern Munich" \in conversation_history[1].detected_entities
    /\ "Bayern Munich" \in conversation_history[2].detected_entities
    /\ "Bayern Munich" \notin conversation_history[3].detected_entities
    /\ "Bayern Munich" \notin conversation_history[4].detected_entities
    /\ current_topic = None


(***************************************************************************)
(* Properties of the pure functions.                                       *)
(***************************************************************************)

\* the records of the call's aggregated data that generate_feed takes as matches of
\* the topic
C2_MatchingRecords ==
    LET data == call.aggregated_data
    IN  {article \in NewsPool :
            /\ \E i \in 1..Len(data.news_articles) : data.news_articles[i] = article
            /\ text_relevance(article, call.topic) > 30}
        \cup {event \in EventPool :
            /\ \E i \in 1..Len(data.sports_events) : data.sports_events[i] = event
            /\ EventRelevance(event, call.topic) > 30}
        \cup {player \in StatsPool :
            /\ \E i \in 1..Len(data.player_stats) : data.player_stats[i] = player
            /\ \/ Contains(Lower(call.topic), Lower(player.player_name))
               \/ Contains(Lower(call.topic), Lower(player.team))}

\* C2: when at least one of news_articles, sports_events, player_stats is not empty
\* and count >= 1, generate_feed returns at least one item; when moreover no record
\* matches the topic, every returned item is flagged is_fallback.
C2_NonEmptyFeed ==
    pc = "return" /\ call.fn = "generate_feed" =>
        LET data == call.aggregated_data
        IN  (/\ \/ data.news_articles # <<>>
                \/ data.sports_events # <<>>
                \/ data.player_stats # <<>>
             /\ call.count >= 1)
            => /\ Len(result) >= 1
               /\ (C2_MatchingRecords = {} => \A i \in 1..Len(result) : result[i].is_fallback)

\* C3: the returned feed is sorted by non-increasing combined score over all of its
\* items, primary and fallback alike: no item is preceded by an item of strictly
\* lower score.
C3_FeedSortedByScore ==
    pc = "return" /\ call.fn = "generate_feed" =>
        \A i, j \in 1..Len(result) : i < j => ~ScoreGreater(result[j], result[i])

\* C7: when the aggregated data is exactly one player-stat record whose player name
\* contains the topic, with no news and no events, generate_feed with the default
\* count and no persona returns exactly one item, of type "stats" and relevance 1.0.
C7_SingleStatSingleItem ==
    pc = "return" /\ call.fn = "generate_feed" =>
        LET data == call.aggregated_data
        IN  (/\ data.news_articles = <<>>
             /\ data.sports_events = <<>>
             /\ Len(data.player_stats) = 1
             /\ Contains(Lower(call.topic), Lower(data.player_stats[1].player_name))
             /\ call.count = 10
             /\ call.persona = None)
            => /\ Len(result) = 1
               /\ result[1].type = "stats"
               /\ result[1].relevance = 100

\* the alias table as the claim reads it: each canonical name with its aliases
C8_Aliases ==
    { <<"Bayern Munich", {"bayern", "munich", "bayern munich"}>>,
      <<"Borussia Dortmund", {"dortmund", "bvb", "borussia dortmund"}>>,
      <<"RB Leipzig", {"leipzig", "rb leipzig"}>>,
      <<"Bayer Leverkusen", {"leverkusen", "bayer leverkusen"}>>,
      <<"Eintracht Frankfurt", {"frankfurt", "eintracht frankfurt"}>>,
      <<"Union Berlin", {"union", "union berlin"}>>,
      <<"SC Freiburg", {"freiburg", "sc freiburg"}>>,
      <<"Borussia Mönchengladbach", {"gladbach", "mönchengladbach", "borussia mönchengladbach"}>>,
      <<"Werder Bremen", {"bremen", "werder bremen"}>>,
      <<"VfL Wolfsburg", {"wolfsburg", "vfl wolfsburg"}>>,
      <<"VfB Stuttgart", {"stuttgart", "vfb stuttgart"}>>,
      <<"TSG Hoffenheim", {"hoffenheim", "tsg hoffenheim"}>>,
      <<"FC Augsburg", {"augsburg", "fc augsburg"}>>,
      <<"Mainz 05", {"mainz", "mainz 05"}>>,
      <<"VfL Bochum", {"bochum", "vfl bochum"}>>,
      <<"FC Heidenheim", {"heidenheim", "fc heidenheim"}>>,
      <<"St. Pauli", {"st. pauli", "st pauli", "sankt pauli"}>>,
      <<"Holstein Kiel", {"kiel", "holstein kiel"}>>,
      <<"Harry Kane", {"kane", "harry kane"}>>,
      <<"Jamal Musiala", {"musiala", "jamal musiala"}>>,
      <<"Florian Wirtz", {"wirtz", "florian wirtz"}>>,
      <<"Niclas Füllkrug", {"füllkrug", "niclas füllkrug"}>>,
      <<"Leroy Sané", {"sané", "leroy sané"}>>,
      <<"Joshua Kimmich", {"kimmich", "joshua kimmich"}>>,
      <<"Ilkay Gündogan", {"gündogan", "ilkay gündogan"}>>,
      <<"Leon Goretzka", {"goretzka", "leon goretzka"}>> }

\* C8: extract_entities of a text returns the canonical name of every alias of the
\* team and player tables that the lowercased text contains, and the empty set for
\* a text that contains no alias.
C8_EveryAliasExtracted ==
    pc = "return" /\ call.fn = "extract_entities" =>
        LET text_lower == Lower(call.text)
        IN  /\ \A entry \in C8_Aliases :
                  \A alias \in entry[2] :
                      Contains(alias, text_lower) => entry[1] \in result
            /\ ((\A alias \in BUNDESLIGA_TEAMS \cup POPULAR_PLAYERS :
                    ~Contains(alias, text_lower)) => result = {})

\* C9 as stated: the relevance is in [0, 1], and it is 0 iff the lowercased topic is
\* not a substring of the lowercased text.
C9_ZeroIffAbsent ==
    pc = "return" /\ call.fn = "_calculate_relevance" =>
        /\ result \in 0..100
        /\ (result = 0 <=> ~Contains(Lower(call.topic), Lower(call.text)))

\* C9 amended: the relevance is in [0, 1]; it is 0 whenever the lowercased topic is
\* not a substring of the lowercased text; and it is greater than 0 when a topic
\* that is not empty is a substring of a text of at most 6666 characters
\* (100 / (3 * length) then rounds to at least 0.01).
C9_ZeroIfAbsentPositiveIfShort ==
    pc = "return" /\ call.fn = "_calculate_relevance" =>
        /\ result \in 0..100
        /\ (~Contains(Lower(call.topic), Lower(call.text)) => result = 0)
        /\ (/\ call.topic # ""
            /\ Contains(Lower(call.topic), Lower(call.text))
            /\ 3 * Len(call.text) < 20000
            => result > 0)

\* one mention at the end of a text of exactly 6666 characters scores 0.01
C9_Witness ==
    /\ pc = "return"
    /\ call.fn = "_calculate_relevance"
    /\ call.topic = "Bayern"
    /\ Len(call.text) = 6666
    /\ Contains("bayern", Lower(call.text))
    /\ result = 1

\* the keyword categories as the claim reads them, each with its spellings
C10_Categories ==
    { {"taktik", "tactic", "tactical"},
      {"analyse", "analysis"},
      {"strategie", "strategy"},
      {"formation"},
      {"spielsystem", "system"},
      {"schwächen", "weakness", "stärken", "strength"},
      {"warum", "why"},
      {"wie", "how"} }

\* C10: _classify_article returns "analysis" iff spellings of at least 2 distinct
\* keyword categories occur in the lowercased title and content, and "news"
\* otherwise.
C10_DistinctCategories ==
    pc = "return" /\ call.fn = "_classify_article" =>
        LET text == Lower(call.title \o " " \o call.content)
            matched == {category \in C10_Categories :
                           \E spelling \in category : Contains(spelling, text)}
        IN  /\ result \in {"analysis", "news"}
            /\ (result = "analysis" <=> Cardinality(matched) >= 2)

(***************************************************************************)
(* Properties of the persona ranking.                                      *)
(***************************************************************************)

\* the boost table as the claim reads it, in hundredths: the casual fan's +0.10 goes
\* to every item of content_category "news", from a news article or from an event
C11_BoostAsStated(item, persona) ==
    LET category == item.content_category
        is_stats == item.type = "stats" \/ category = "stats"
    IN  IF persona = "casual_fan"
        THEN (IF category = "news" THEN 10 ELSE IF category = "analysis" THEN -10 ELSE 0)
        ELSE IF persona = "expert_analyst"
        THEN (IF category = "analysis" THEN 20 ELSE IF item.type = "event" THEN -5 ELSE 0)
        ELSE IF persona = "betting_enthusiast"
        THEN (IF is_stats THEN 15 ELSE IF category = "analysis" THEN -5 ELSE 0)
        ELSE IF persona = "fantasy_player"
        THEN (IF is_stats THEN 25
              ELSE IF category = "news" /\ Contains("goal", Lower(item.headline)) THEN 10
              ELSE IF category = "analysis" THEN -10
              ELSE 0)
        ELSE 0

\* the same table with the casual fan's +0.10 for event items only
C11_BoostAmended(item, persona) ==
    IF persona = "casual_fan" /\ item.content_category = "news" /\ item.type # "event"
    THEN 0
    ELSE C11_BoostAsStated(item, persona)

\* C11 as stated: the persona_boost set on each item is the value of the table for
\* (persona, item), casual_fan giving +0.10 to every item of category "news".
C11_BoostTable ==
    pc = "return" /\ call.fn = "_apply_persona_preferences" =>
        /\ Len(result) = Len(call.feed_items)
        /\ \A i \in 1..Len(result) :
              result[i].persona_boost = C11_BoostAsStated(call.feed_items[i], call.persona)

\* C11 amended: the persona_boost set on each item is the value of the table for
\* (persona, item), in which casual_fan gives +0.10 to event items only and 0 to an
\* item of category "news" that comes from a news article; every other field of the
\* item is left as it was; an unrecognised persona gives 0.
C11_BoostTableEventsOnly ==
    pc = "return" /\ call.fn = "_apply_persona_preferences" =>
        /\ Len(result) = Len(call.feed_items)
        /\ \A i \in 1..Len(result) :
              result[i] = [call.feed_items[i] EXCEPT
                              !.persona_boost = C11_BoostAmended(call.feed_items[i], call.persona)]

\* a casual fan's list of an event and a news article: +0.10 and 0
C11_Witness ==
    /\ pc = "return"
    /\ call.fn = "_apply_persona_preferences"
    /\ call.persona = "casual_fan"
    /\ Len(result) = 2
    /\ result[1].type = "event" /\ result[1].persona_boost = 10
    /\ result[2].type = "news" /\ result[2].content_category = "news"
    /\ result[2].persona_boost = 0

(***************************************************************************)
(* Frame and effect of the tracker methods.                                *)
(*                                                                         *)
(* A step that sets last_op to the name of a tracker method and leaves the *)
(* pure-function call alone is a call of that method.                      *)
(***************************************************************************)

\* C12: reset_feed_state sets feed_offered and feed_accepted to False and current_topic
\* to None and leaves the turn history unchanged; no step of another operation
\* (add_turn, should_offer_feed, accept_feed_offer, generate_feed) changes
\* feed_offered from True to False.
C12_ResetEffectAndFrame ==
    [][/\ (last_op' = "reset_feed_state" /\ UNCHANGED call_vars =>
              /\ feed_offered' = FALSE
              /\ feed_accepted' = FALSE
              /\ current_topic' = None
              /\ conversation_history' = conversation_history)
       /\ (feed_offered /\ ~feed_offered' =>
              last_op' = "reset_feed_state" /\ UNCHANGED call_vars)]_vars

\* after a reset: the turns are kept, two of them share an entity, which add_turn had
\* made the topic, and the topic is cleared; a feed has been generated meanwhile
C12_Witness ==
    /\ last_op = "reset_feed_state"
    /\ Len(conversation_history) = 2
    /\ conversation_history[1].detected_entities = {"Bayern Munich"}
    /\ conversation_history[2].detected_entities = {"Bayern Munich"}
    /\ current_topic = None
    /\ ~feed_offered
    /\ ~feed_accepted
    /\ pc = "return"
    /\ result # <<>>

\* C13: add_turn appends exactly one turn at the end of the history, whose
\* detected_entities are extract_entities of the query alone: entities of the
\* response are not recorded; the earlier turns, feed_offered and feed_accepted are
\* left unchanged; and no operation makes the history shorter.
C13_AppendOnlyQueryOnly ==
    [][/\ Len(conversation_history') >= Len(conversation_history)
       /\ (last_op' = "add_turn" =>
              LET n == Len(conversation_history')
              IN  /\ n = Len(conversation_history) + 1
                  /\ SubSeq(conversation_history', 1, n - 1) = conversation_history
                  /\ conversation_history'[n].query \in Queries
                  /\ conversation_history'[n].response \in Responses
                  /\ conversation_history'[n].detected_entities =
                        extract_entities_of[conversation_history'[n].query]
                  /\ UNCHANGED <<feed_offered, feed_accepted>>)]_vars

\* two turns whose responses both name Dortmund and whose queries name nothing:
\* nothing is recorded and no topic is detected
C13_Witness ==
    /\ last_op = "add_turn"
    /\ Len(conversation_history) = 2
    /\ \A i \in 1..2 :
          /\ conversation_history[i].response = "Dortmund won"
          /\ extract_entities(conversation_history[i].response) = {"Borussia Dortmund"}
          /\ conversation_history[i].detected_entities = {}
    /\ current_topic = None

\* C14: in every reachable state with fewer than 2 turns current_topic is None, no
\* offer has been made (feed_offered is False), and a should_offer_feed call made in
\* such a state has returned (False, None).
C14_InsufficientHistory ==
    Len(conversation_history) < 2 =>
        /\ current_topic = None
        /\ feed_offered = FALSE
        /\ offers = <<>>
        /\ (last_op = "should_offer_feed" => last_ret = <<FALSE, None>>)

\* one turn that names two entities, and should_offer_feed called after it
C14_Witness ==
    /\ Len(conversation_history) = 1
    /\ conversation_history[1].detected_entities = {"Bayern Munich", "Harry Kane"}
    /\ last_op = "should_offer_feed"
    /\ last_ret = <<FALSE, None>>
    /\ current_topic = None
    /\ ~feed_offered

(***************************************************************************)
(* Properties of the returned feed.                                        *)
(***************************************************************************)

\* C15: generate_feed returns at most count items, and they are the first count
\* items, in the same order, of the list it returns when count does not limit it.
C15_CountLimit ==
    pc = "return" /\ call.fn = "generate_feed" =>
        LET \* a count no feed of the model reaches
            unlimited == 100
            full == generate_feed(call.topic, call.aggregated_data, unlimited, call.persona)
        IN  /\ Len(full) < unlimited
            /\ Len(result) <= call.count
            /\ Len(result) = Min(call.count, Len(full))
            /\ \A i \in 1..Len(result) : result[i] = full[i]

\* count = 2 cuts a feed of primary and fallback items after its second item
C15_Witness ==
    /\ pc = "return"
    /\ call.fn = "generate_feed"
    /\ call.count = 2
    /\ Len(result) = 2
    /\ Len(generate_feed(call.topic, call.aggregated_data, 10, call.persona)) = 3
    /\ ~result[1].is_fallback
    /\ result[2].is_fallback

\* C16: when news_articles, sports_events and player_stats are all empty,
\* generate_feed returns the empty list, for every topic, count and persona.
C16_EmptyDataEmptyFeed ==
    (/\ pc = "return"
     /\ call.fn = "generate_feed"
     /\ call.aggregated_data.news_articles = <<>>
     /\ call.aggregated_data.sports_events = <<>>
     /\ call.aggregated_data.player_stats = <<>>)
    => result = <<>>

\* the default count and a persona, on empty data
C16_Witness ==
    /\ pc = "return"
    /\ call.fn = "generate_feed"
    /\ call.aggregated_data =
          [news_articles |-> <<>>, sports_events |-> <<>>, player_stats |-> <<>>]
    /\ call.count = 10
    /\ call.persona = "fantasy_player"
    /\ call.topic = "Bayern"
    /\ result = <<>>

\* C17: in the returned feed no item flagged is_fallback is placed before a primary
\* item whose combined score is strictly higher.
C17_FallbackBehindBetterPrimary ==
    pc = "return" /\ call.fn = "generate_feed" =>
        \A i, j \in 1..Len(result) :
            ~(/\ i < j
              /\ result[i].is_fallback
              /\ ~result[j].is_fallback
              /\ ScoreGreater(result[j], result[i]))

\* a feed of primary and fallback items in which a primary item has the strictly
\* higher score and stands first
C17_Witness ==
    /\ pc = "return"
    /\ call.fn = "generate_feed"
    /\ \E i, j \in 1..Len(result) :
          /\ i < j
          /\ ~result[i].is_fallback
          /\ result[j].is_fallback
          /\ ScoreGreater(result[i], result[j])

(***************************************************************************)
(* Further frame properties of the tracker.                                *)
(***************************************************************************)

\* C18: accept_feed_offer sets feed_accepted to True and leaves the turn history,
\* current_topic and feed_offered as they are.
C18_AcceptFrame ==
    [][last_op' = "accept_feed_offer" =>
          /\ feed_accepted' = TRUE
          /\ UNCHANGED <<conversation_history, current_topic, feed_offered>>]_vars

\* an acceptance with no offer outstanding: feed_offered stays False, the topic stays
C18_Witness ==
    /\ last_op = "accept_feed_offer"
    /\ feed_accepted
    /\ ~feed_offered
    /\ current_topic = "Bayern Munich"
    /\ Len(conversation_history) = 2

\* what should_offer_feed returns when called in the current state
C19_OfferReturn ==
    IF ~feed_offered /\ Len(conversation_history) >= 2 /\ Truthy(current_topic)
    THEN <<TRUE, current_topic>>
    ELSE <<FALSE, None>>

\* C19: a generate_feed call leaves the turn history, current_topic, feed_offered and
\* feed_accepted unchanged, leaves every record of the news_articles, sports_events
\* and player_stats it was given as it was, and does not change what
\* should_offer_feed returns.
C19_GenerateFeedPure ==
    [][pc = "call" /\ pc' = "return" =>
          /\ UNCHANGED <<conversation_history, current_topic, feed_offered, feed_accepted>>
          /\ call'.aggregated_data = call.aggregated_data
          /\ call' = call
          /\ C19_OfferReturn' = C19_OfferReturn]_vars

\* a feed generated, with persona boosts set on its items, in a conversation in which
\* should_offer_feed is about to offer
C19_Witness ==
    /\ pc = "return"
    /\ call \in FeedRequests
    /\ \E i \in 1..Len(result) : result[i].persona_boost # 0
    /\ C19_OfferReturn = <<TRUE, "Bayern Munich">>
    /\ call.aggregated_data.player_stats # <<>>

\* C20: add_turn with an empty query appends a turn whose detected_entities is the
\* empty set, and the topic is then computed from the last min(3, n) turns as for
\* any other turn: it is set iff some entity is detected in at least 2 of them, the
\* empty turn taking a place in the window and contributing no occurrence.
C20_EmptyQueryTurn ==
    [][(/\ last_op' = "add_turn"
        /\ Len(conversation_history') = Len(conversation_history) + 1
        /\ conversation_history'[Len(conversation_history')].query = "")
       => LET history == conversation_history'
              n == Len(history)
              lastTurns == {i \in 1..n : i > n - 3}
              occurrences(e) ==
                  Cardinality({i \in lastTurns : e \in history[i].detected_entities})
              entities == UNION {history[i].detected_entities : i \in lastTurns}
          IN  /\ history[n].detected_entities = {}
              /\ SubSeq(history, 1, n - 1) = conversation_history
              /\ IF n >= 2 /\ \E e \in entities : occurrences(e) >= 2
                 THEN /\ current_topic' \in entities
                      /\ occurrences(current_topic') >= 2
                      /\ \A e \in entities : occurrences(e) <= occurrences(current_topic')
                 ELSE current_topic' = None]_vars

\* two turns about Bayern followed by two empty queries: after the second empty
\* query the window holds one Bayern turn and the topic is gone
C20_Witness ==
    /\ last_op = "add_turn"
    /\ Len(conversation_history) = 4
    /\ conversation_history[1].detected_entities = {"Bayern Munich"}
    /\ conversation_history[2].detected_entities = {"Bayern Munich"}
    /\ conversation_history[3].query = ""
    /\ conversation_history[4].query = ""
    /\ conversation_history[4].detected_entities = {}
    /\ current_topic = None

(***************************************************************************)
(* Properties of the headline boost.                                       *)
(***************************************************************************)

\* topic_lower in text_lower[:50]
C21_InHeadline(text, topic) == Contains(Lower(topic), Prefix(Lower(text), 50))

\* the texts of the same length and mention count as the text of the call in which
\* the topic does not occur within the first 50 characters
C21_SameTextsWithoutHeadline ==
    {other \in HeadlineTexts :
        /\ Len(other) = Len(call.text)
        /\ Count(Lower(other), Lower(call.topic)) = Count(Lower(call.text), Lower(call.topic))
        /\ ~C21_InHeadline(other, call.topic)}

\* C21: for a fixed text length and mention count, the relevance of a text in which
\* the topic occurs within the first 50 characters is greater than or equal to the
\* relevance of a text in which it does not, and it never exceeds 1.0.
C21_HeadlineBoostMonotone ==
    pc = "return" /\ call.fn = "_calculate_relevance" =>
        /\ result <= 100
        /\ (C21_InHeadline(call.text, call.topic) =>
               \A other \in C21_SameTextsWithoutHeadline :
                   result >= _calculate_relevance(other, call.topic))

\* a mention in the headline that scores strictly more than the same mention at the
\* end of a text of the same length, and is not clamped
C21_Witness ==
    /\ pc = "return"
    /\ call.fn = "_calculate_relevance"
    /\ call.topic = "Bayern"
    /\ C21_InHeadline(call.text, call.topic)
    /\ result < 100
    /\ \E other \in C21_SameTextsWithoutHeadline :
          /\ _calculate_relevance(other, call.topic) > 0
          /\ result > _calculate_relevance(other, call.topic)

(***************************************************************************)
(* Properties of the persona ranking inside generate_feed.                 *)
(***************************************************************************)

\* the feed of the same call made without a persona
C22_FeedWithoutPersona == generate_feed(call.topic, call.aggregated_data, call.count, None)

\* items i and j of the returned feed are peers: equal relevance, equal recency, and
\* a persona boost of 0 each.  A stats item is stamped with the instant at which it is
\* built, so that no two stats items carry the same timestamp: peers are items of
\* news articles and of events, whose timestamps are those of the records.
C22_ZeroBoostPeers(i, j) ==
    /\ result[i].persona_boost = 0
    /\ result[j].persona_boost = 0
    /\ result[i].type # "stats"
    /\ result[j].type # "stats"
    /\ result[i].relevance = result[j].relevance
    /\ result[i].age = result[j].age

C23_ItemsOfArticle(article) ==
    {i \in 1..Len(result) :
        /\ result[i].type = "news"
        /\ result[i].headline \in {article.title, "[Related] " \o article.title,
                                   "[Bundesliga] " \o article.title}}

\* the places that hold an item built from a player-stat record
C23_ItemsOfPlayer(player) ==
    {i \in 1..Len(result) :
        /\ result[i].type = "stats"
        /\ result[i].headline = player.player_name \o " - " \o player.team}

\* the places that hold an item built from an event
C23_ItemsOfEvent(event) ==
    {i \in 1..Len(result) : result[i].type = "event" /\ result[i].headline = event.title}

\* C23: no record contributes more than one item to the returned feed: a record that
\* has a primary item is not added again by the fallback, with or without a url, and
\* no record is added by two fallback strategies.
C23_NoDuplicates ==
    pc = "return" /\ call.fn = "generate_feed" =>
        /\ \A article \in Range(call.aggregated_data.news_articles) :
              Cardinality(C23_ItemsOfArticle(article)) <= 1
        /\ \A event \in Range(call.aggregated_data.sports_events) :
              Cardinality(C23_ItemsOfEvent(event)) <= 1
        /\ \A player \in Range(call.aggregated_data.player_stats) :
              Cardinality(C23_ItemsOfPlayer(player)) <= 1

\* what the admission rule says of a feed item: its type, headline, relevance and
\* content_category
C24_Admitted(type, headline, relevance, content_category) ==
    [type |-> type, headline |-> headline, relevance |-> relevance,
     content_category |-> content_category]

\* the topic is a case-insensitive substring of a team or player name that is given
C24_TopicIn(name) == Truthy(name) /\ Contains(Lower(call.topic), Lower(name))

\* the primary items the rule admits for the call: a news record with relevance over
\* 0.3; an event by a team name, with relevance 1.0, or else by a text relevance over
\* 0.3; a stat record by the player or team name, with relevance 1.0
C24_PrimaryByRule ==
    LET data == call.aggregated_data
        relevance(record) == calculate_relevance_of[TitleAndContent(record), call.topic]
    IN  {C24_Admitted("news", article.title, relevance(article),
                      classify_article_of[article]) :
            article \in {a \in Range(data.news_articles) : relevance(a) > 30}}
        \cup {C24_Admitted("event", event.title, 100, "news") :
            event \in {e \in Range(data.sports_events) :
                          C24_TopicIn(e.home_team) \/ C24_TopicIn(e.away_team)}}
        \cup {C24_Admitted("event", event.title, relevance(event), "news") :
            event \in {e \in Range(data.sports_events) :
                          /\ ~(C24_TopicIn(e.home_team) \/ C24_TopicIn(e.away_team))
                          /\ relevance(e) > 30}}
        \cup {C24_Admitted("stats", player.player_name \o " - " \o player.team, 100, "stats") :
            player \in {p \in Range(data.player_stats) :
                           C24_TopicIn(p.player_name) \/ C24_TopicIn(p.team)}}

\* the items of the returned feed that are not flagged is_fallback
C24_PrimaryItems == SelectSeq(result, LAMBDA item : ~item.is_fallback)

\* C24: the primary items of the feed are exactly the items the admission rule gives:
\* every primary item is admitted by the rule, with the relevance and category the
\* rule states, and, in a feed that count has not cut, every admitted record has
\* its one primary item; a record whose relevance is exactly 0.3 has none.
C24_PrimaryAdmission ==
    pc = "return" /\ call.fn = "generate_feed" =>
        LET primary == C24_PrimaryItems
            rule == C24_PrimaryByRule
        IN  /\ \A i \in 1..Len(primary) :
                  C24_Admitted(primary[i].type, primary[i].headline, primary[i].relevance,
                               primary[i].content_category) \in rule
            /\ (Len(result) < call.count =>
                   /\ Len(primary) = Cardinality(rule)
                   /\ \A admitted \in rule :
                         \E i \in 1..Len(primary) :
                             /\ primary[i].type = admitted.type
                             /\ primary[i].headline = admitted.headline)

\* an article over the threshold and two events by team name are primary, and the
\* article whose relevance is exactly 0.3 is in the data and not in the feed
C24_Witness ==
    /\ pc = "return"
    /\ call.fn = "generate_feed"
    /\ call.topic = "Bayern"
    /\ \E article \in Range(call.aggregated_data.news_articles) :
          /\ calculate_relevance_of[TitleAndContent(article), call.topic] = 30
          /\ C23_ItemsOfArticle(article) = {}
    /\ \E i \in 1..Len(result) : result[i].type = "news" /\ result[i].relevance = 88
    /\ Cardinality({i \in 1..Len(result) :
                       result[i].type = "event" /\ result[i].relevance = 100}) = 2
    /\ \A i \in 1..Len(result) : ~result[i].is_fallback

\* the items of the returned feed that are flagged is_fallback
C25_FallbackItems == SelectSeq(result, LAMBDA item : item.is_fallback)

\* C25: the returned feed holds an is_fallback item only if fewer than 3 primary items
\* were collected, and never more than 5 fallback items: a feed with 3 or more primary
\* items holds no fallback item, and a feed that holds a fallback item has at most
\* 7 items.
C25_FallbackTriggerAndCap ==
    pc = "return" /\ call.fn = "generate_feed" =>
        LET fallback == Len(C25_FallbackItems)
            primary == Len(result) - fallback
            collected == Len(matching_items(call.topic, call.aggregated_data))
        IN  /\ (fallback > 0 => collected < 3 /\ primary = collected)
            /\ fallback <= 5
            /\ (primary >= 3 => fallback = 0)
            /\ (fallback > 0 => Len(result) <= 7)

\* six articles of marginal relevance behind two primary items: five of them are in
\* the feed, which has 7 items
C25_Witness ==
    /\ pc = "return"
    /\ call.fn = "generate_feed"
    /\ Cardinality({article \in Range(call.aggregated_data.news_articles) :
                       is_marginal(text_relevance(article, call.topic))}) = 6
    /\ Len(result) = 7
    /\ Len(C25_FallbackItems) = 5
    /\ ~result[1].is_fallback /\ ~result[2].is_fallback

\* the relevance the claim states for a fallback item: the computed relevance of the
\* article behind a "[Related]" item, 0.2 for a "[Bundesliga]" item, 0.15 for a stats
\* item
C26_StatedRelevance(item) ==
    IF item.type = "stats" THEN {15}
    ELSE IF Prefix(item.headline, 13) = "[Bundesliga] " THEN {20}
    ELSE {text_relevance(article, call.topic) :
             article \in {a \in Range(call.aggregated_data.news_articles) :
                             item.headline = "[Related] " \o a.title}}

\* C26: in every returned feed each item flagged is_fallback has a relevance in
\* [0.15, 0.3), the one stated for its strategy, each other item has a relevance
\* strictly greater than 0.3, and so every fallback item's relevance is strictly
\* below every primary item's.
C26_RelevanceSeparation ==
    pc = "return" /\ call.fn = "generate_feed" =>
        /\ \A i \in 1..Len(result) :
              IF result[i].is_fallback
              THEN /\ 15 <= result[i].relevance
                   /\ result[i].relevance < 30
                   /\ result[i].relevance \in C26_StatedRelevance(result[i])
              ELSE result[i].relevance > 30
        /\ \A i, j \in 1..Len(result) :
              result[i].is_fallback /\ ~result[j].is_fallback =>
                  result[i].relevance < result[j].relevance

\* a feed with a primary item, a "[Related]" item whose computed relevance is neither
\* 0.2 nor 0.15, and a "[Bundesliga]" item with 0.2
C26_Witness ==
    /\ pc = "return"
    /\ call.fn = "generate_feed"
    /\ \E i \in 1..Len(result) : ~result[i].is_fallback
    /\ \E i \in 1..Len(result) :
          /\ result[i].is_fallback
          /\ Prefix(result[i].headline, 10) = "[Related] "
          /\ result[i].relevance \notin {15, 20}
    /\ \E i \in 1..Len(result) :
          /\ result[i].is_fallback
          /\ Prefix(result[i].headline, 13) = "[Bundesliga] "
          /\ result[i].relevance = 20

(***************************************************************************)
(* Offers after a reset and in the CLI loop.                               *)
(***************************************************************************)

\* the state reset_feed_state leaves as should_offer_feed reads it: no offer
\* outstanding and no topic.  It lasts until the next add_turn, which alone assigns
\* current_topic.
C27_Rearmed == ~feed_offered /\ current_topic = None

\* how many of the last min(3, n) turns of a history mention the entity
C27_Mentions(history, e) ==
    Cardinality({i \in 1..Len(history) :
                    i > Len(history) - 3 /\ e \in history[i].detected_entities})

\* the entities repeated in the trailing window of a history of at least 2 turns
C27_Repeated(history) ==
    IF Len(history) < 2 THEN {}
    ELSE {e \in UNION {history[i].detected_entities : i \in 1..Len(history)} :
             C27_Mentions(history, e) >= 2}

\* C27: reset_feed_state leaves the tracker without offer and without topic; from
\* then on, as long as no add_turn is made, every should_offer_feed call returns
\* (False, None) and feed_offered stays False, whatever the last turns repeat; an
\* add_turn then sets the topic iff an entity is repeated in the trailing window of
\* up to 3 turns of the whole history, to an entity T repeated there, and the
\* should_offer_feed call that follows returns (True, T) and marks the offer.
C27_RearmNeedsNewTurn ==
    [][/\ (last_op' = "reset_feed_state" => C27_Rearmed')
       /\ (C27_Rearmed /\ last_op' \in {"should_offer_feed", "accept_feed_offer"} =>
              /\ C27_Rearmed'
              /\ (last_op' = "should_offer_feed" => last_ret' = <<FALSE, None>>))
       /\ (C27_Rearmed /\ last_op' = "add_turn" =>
              /\ ~feed_offered'
              /\ (current_topic' # None <=> C27_Repeated(conversation_history') # {})
              /\ (current_topic' # None =>
                     /\ current_topic' \in C27_Repeated(conversation_history')
                     /\ \A e \in C27_Repeated(conversation_history') :
                           C27_Mentions(conversation_history', e)
                               <= C27_Mentions(conversation_history', current_topic')))
       /\ (/\ last_op = "add_turn"
           /\ ~feed_offered
           /\ current_topic # None
           /\ last_op' = "should_offer_feed"
           => last_ret' = <<TRUE, current_topic>> /\ feed_offered')]_vars

\* should_offer_feed has returned (False, None) although the last two turns both
\* mention Bayern Munich: the topic was cleared by a reset and no turn was added since
C27_Witness ==
    /\ last_op = "should_offer_feed"
    /\ last_ret = <<FALSE, None>>
    /\ ~feed_offered
    /\ current_topic = None
    /\ Len(conversation_history) >= 2
    /\ "Bayern Munich" \in C27_Repeated(conversation_history)

\* C28: in the CLI loop the offer prompt is shown at most once per session: a
\* should_offer_feed call returns (True, current_topic) exactly when no offer was
\* shown before and a topic is set, which is the first turn after which
\* current_topic is set, since no turn with a topic goes by without an offer; once
\* an offer was shown every later call returns (False, None), whether the user
\* accepted or declined, for the same or another topic.
C28_OneOfferPerSession ==
    [][/\ Len(offers') <= 1
       /\ (last_op' = "should_offer_feed" /\ UNCHANGED call_vars =>
              IF offers = <<>> /\ current_topic # None
              THEN last_ret' = <<TRUE, current_topic>> /\ offers' = <<current_topic>>
              ELSE last_ret' = <<FALSE, None>> /\ offers' = offers)
       /\ (offers' = <<>> /\ last_op' # "add_turn" => current_topic' = None)
       /\ (offers # <<>> => offers' = offers /\ feed_offered')]_vars

\* the user declined the offer made for Bayern Munich after the second turn; two
\* turns later the topic is Harry Kane, and should_offer_feed has returned
\* (False, None)
C28_Witness ==
    /\ offers = <<"Bayern Munich">>
    /\ ~feed_accepted
    /\ Len(conversation_history) = 4
    /\ current_topic = "Harry Kane"
    /\ last_op = "should_offer_feed"
    /\ last_ret = <<FALSE, None>>

\* C30: current_topic is uniquely determined by the sequence of queries passed to
\* add_turn: right after add_turn the topic held is the only topic the detection can
\* arrive at from the turns recorded, also when two entities tie for the highest
\* count in the trailing window.
C30_TopicDetermined ==
    last_op = "add_turn" =>
        \A topic \in detect_topic_patterns(conversation_history) : topic = current_topic

\* C29: in every state reachable by add_turn, should_offer_feed, accept_feed_offer
\* and reset_feed_state calls, feed_accepted is True only if feed_offered is True.
C29_AcceptedOnlyIfOffered ==
    feed_accepted => feed_offered

\* C29, as the code has it: a fresh tracker has accepted nothing, and every add_turn,
\* should_offer_feed and reset_feed_state call, and every accept_feed_offer call made
\* while feed_offered is True, leaves feed_accepted True only if feed_offered is
\* True; accept_feed_offer itself asks for no offer.
C29_AcceptedOnlyIfOfferedUnlessAcceptedUnoffered ==
    /\ ~feed_accepted
    /\ [][((feed_accepted => feed_offered)
              /\ (last_op' = "accept_feed_offer" => feed_offered))
             => (feed_accepted' => feed_offered')]_vars

\* an offer for Harry Kane was made and then accepted: both flags are set
C29_Witness ==
    /\ last_op = "accept_feed_offer"
    /\ feed_accepted
    /\ feed_offered
    /\ offers = <<"Harry Kane">>

====
